---------------------------- MODULE Spec2Model ----------------------------
(***************************************************************************)
(* The length-prefixed framing of file_utils.py: file_encode,              *)
(* text_message_encode and get_file_metadata, with the stream socket       *)
(* between a sending peer and the receiver.                                *)
(*                                                                         *)
(* Strings are sequences of Unicode code points and byte strings are       *)
(* sequences of naturals.  Python exceptions are values: an operator that  *)
(* can raise returns [exc |-> <exception name or "none">, val |-> ...].    *)
(***************************************************************************)
EXTENDS Integers, Sequences, FiniteSets, TLC

(***************************************************************************)
(* Bounds and program constants                                            *)
(***************************************************************************)

\* INT_SIZE = 4: the width in bytes of the length prefix.
INT_SIZE == 4

\* The number of values one byte of the length prefix takes.  The program's
\* bytes have 256; the model scales the radix down so that lengths past the
\* largest one the prefix holds (ByteRadix^INT_SIZE - 1) are within reach.
ByteRadix == 4

\* How many messages the peer writes to one connection.
MaxMsgs == 2

\* How many of them are text messages.
MaxTexts == 1

\* A peer that dies while sending a message has written at most MaxCut bytes
\* past the length prefix, or all but at most MaxCut bytes of the message.
MaxCut == 2

\* The largest payload length the prefix holds (2^32 - 1 in the program).
MaxFrame == (ByteRadix ^ INT_SIZE) - 1

Min(a, b) == IF a <= b THEN a ELSE b

\* The first position from i on whose element does not satisfy P (Len(s) + 1
\* when every one does).
SkipWhile(s, i, P(_)) ==
    IF i > Len(s) THEN i
    ELSE CHOOSE j \in i..(Len(s) + 1) :
             /\ j = Len(s) + 1 \/ ~P(s[j])
             /\ \A m \in i..(j - 1) : P(s[m])

NoExc == "none"

Ok(v) == [exc |-> NoExc, val |-> v]

Raise(e) == [exc |-> e, val |-> <<>>]

(***************************************************************************)
(* int.to_bytes and int.from_bytes (byteorder "big", the default)          *)
(***************************************************************************)

\* n.to_bytes(length) that keeps the low bytes of a number that does not fit.
ToBytesWrap(n, length) ==
    Ok([i \in 1..length |-> (n \div (ByteRadix ^ (length - i))) % ByteRadix])

\* n.to_bytes(length): the big-endian digits of n, OverflowError when n does
\* not fit in length bytes.
ToBytes(n, length) ==
    IF n >= (ByteRadix ^ length)
    THEN Raise("OverflowError")
    ELSE Ok([i \in 1..length |-> (n \div (ByteRadix ^ (length - i))) % ByteRadix])

\* int.from_bytes(b) reading the bytes least significant first: the wrong order.
RECURSIVE FromBytesLittle(_)
FromBytesLittle(b) ==
    IF b = <<>> THEN 0 ELSE Head(b) + (ByteRadix * FromBytesLittle(Tail(b)))

\* int.from_bytes(b): the big-endian value of however many bytes b holds
\* (0 for the empty byte string).
RECURSIVE FromBytes(_)
FromBytes(b) ==
    IF b = <<>> THEN 0
    ELSE (FromBytes(SubSeq(b, 1, Len(b) - 1)) * ByteRadix) + b[Len(b)]

(***************************************************************************)
(* str.encode("utf-8") and bytes.decode("utf-8")                           *)
(***************************************************************************)

IsSurrogate(c) == c >= 55296 /\ c <= 57343

\* The UTF-8 bytes of one code point (not a surrogate).
Utf8OfChar(c) ==
    IF c < 128 THEN <<c>>
    ELSE IF c < 2048 THEN <<192 + (c \div 64), 128 + (c % 64)>>
    ELSE IF c < 65536
         THEN <<224 + (c \div 4096), 128 + ((c \div 64) % 64), 128 + (c % 64)>>
    ELSE <<240 + (c \div 262144), 128 + ((c \div 4096) % 64),
           128 + ((c \div 64) % 64), 128 + (c % 64)>>

\* The UTF-8 bytes of every code point of s, in order (the recursion halves s).
RECURSIVE Utf8Bytes(_)
Utf8Bytes(s) ==
    IF s = <<>> THEN <<>>
    ELSE IF Len(s) = 1 THEN Utf8OfChar(s[1])
    ELSE Utf8Bytes(SubSeq(s, 1, Len(s) \div 2))
         \o Utf8Bytes(SubSeq(s, (Len(s) \div 2) + 1, Len(s)))

\* s.encode("utf-8"): UnicodeEncodeError on a lone surrogate.
Utf8Encode(s) ==
    IF \E i \in 1..Len(s) : IsSurrogate(s[i])
    THEN Raise("UnicodeEncodeError")
    ELSE Ok(Utf8Bytes(s))

IsCont(b, i) == i <= Len(b) /\ b[i] >= 128 /\ b[i] <= 191

IsAscii(c) == c < 128

\* The code points of the UTF-8 bytes b from position i on, or <<-1>> at the
\* first byte that starts no well-formed sequence.
RECURSIVE Utf8Points(_, _)
\* A run of ASCII bytes from i to e - 1, and what follows it.
Utf8Run(b, i, e) == SubSeq(b, i, e - 1) \o Utf8Points(b, e)

\* The sequence of n bytes at i, whose code point is c when it is well
\* formed, and what follows it.
Utf8Seq(b, i, n, wellformed, c) ==
    IF wellformed THEN <<c>> \o Utf8Points(b, i + n) ELSE <<-1>>

Utf8Points(b, i) ==
    IF i > Len(b) THEN <<>>
    ELSE IF b[i] < 128 THEN Utf8Run(b, i, SkipWhile(b, i, IsAscii))
    ELSE IF b[i] <= 223
    THEN Utf8Seq(b, i, 2, b[i] >= 194 /\ IsCont(b, i + 1),
                 ((b[i] - 192) * 64) + (b[i + 1] - 128))
    ELSE IF b[i] <= 239
    THEN Utf8Seq(b, i, 3,
                 /\ IsCont(b, i + 1) /\ IsCont(b, i + 2)
                 /\ ((b[i] - 224) * 4096) + ((b[i + 1] - 128) * 64) >= 2048,
                 ((b[i] - 224) * 4096) + ((b[i + 1] - 128) * 64)
                 + (b[i + 2] - 128))
    ELSE Utf8Seq(b, i, 4,
                 /\ b[i] <= 244 /\ IsCont(b, i + 1) /\ IsCont(b, i + 2)
                 /\ IsCont(b, i + 3)
                 /\ ((b[i] - 240) * 262144) + ((b[i + 1] - 128) * 4096) >= 65536,
                 ((b[i] - 240) * 262144) + ((b[i + 1] - 128) * 4096)
                 + ((b[i + 2] - 128) * 64) + (b[i + 3] - 128))

\* The code points p when none of them marks malformed bytes.
Utf8Checked(p) ==
    IF \E i \in 1..Len(p) : p[i] < 0 THEN Raise("UnicodeDecodeError") ELSE Ok(p)

\* b.decode("utf-8") as json.loads applies it (errors="surrogatepass", so an
\* encoded surrogate decodes): UnicodeDecodeError on malformed bytes.
Utf8Decode(b) == Utf8Checked(Utf8Points(b, 1))

(***************************************************************************)
(* JSON values.  A dict is the sequence of its items in insertion order,   *)
(* as Python keeps it; two dicts are compared item by item through DictGet.*)
(***************************************************************************)

JStr(s) == [t |-> "str", v |-> s]

JInt(n) == [t |-> "int", v |-> n]

JBool(b) == [t |-> "bool", v |-> b]

JFloat(text) == [t |-> "float", v |-> text]

JNull == [t |-> "null", v |-> 0]

JList(items) == [t |-> "list", v |-> items]

JDict(items) == [t |-> "dict", v |-> items]

HasKey(items, k) == \E i \in 1..Len(items) : items[i].k = k

\* d[k] of a dict's items (the caller checks HasKey).
DictGet(items, k) == items[CHOOSE i \in 1..Len(items) : items[i].k = k].v

\* d[k] = v: replaces the value of a key the dict holds, appends a new one.
DictSet(items, k, v) ==
    IF HasKey(items, k)
    THEN [i \in 1..Len(items) |->
             IF items[i].k = k THEN [k |-> k, v |-> v] ELSE items[i]]
    ELSE Append(items, [k |-> k, v |-> v])

\* The keys of the metadata record, as file_encode writes them.
K_is_compressed == <<105, 115, 95, 99, 111, 109, 112, 114, 101, 115, 115, 101, 100>>

K_file_name == <<102, 105, 108, 101, 95, 110, 97, 109, 101>>

K_permissions == <<112, 101, 114, 109, 105, 115, 115, 105, 111, 110, 115>>

K_file_len == <<102, 105, 108, 101, 95, 108, 101, 110>>

(***************************************************************************)
(* json.dumps (ensure_ascii, separators ", " and ": ")                     *)
(***************************************************************************)

RECURSIVE DecDigits(_)
DecDigits(n) ==
    IF n < 10 THEN <<48 + n>> ELSE Append(DecDigits(n \div 10), 48 + (n % 10))

HexDigit(d) == IF d < 10 THEN 48 + d ELSE 87 + d

\* \uXXXX for a code unit below 65536.
UEscape(c) ==
    <<92, 117, HexDigit(c \div 4096), HexDigit((c \div 256) % 16),
      HexDigit((c \div 16) % 16), HexDigit(c % 16)>>

\* One character of a string as json.dumps writes it: printable ASCII as it
\* is, quote and backslash escaped, the rest as \uXXXX (a surrogate pair for a
\* code point past 65535).
DumpChar(c) ==
    IF c = 34 THEN <<92, 34>>
    ELSE IF c = 92 THEN <<92, 92>>
    ELSE IF c = 10 THEN <<92, 110>>
    ELSE IF c = 13 THEN <<92, 114>>
    ELSE IF c = 9 THEN <<92, 116>>
    ELSE IF c = 12 THEN <<92, 102>>
    ELSE IF c = 8 THEN <<92, 98>>
    ELSE IF c >= 32 /\ c <= 126 THEN <<c>>
    ELSE IF c < 65536 THEN UEscape(c)
    ELSE UEscape(55296 + ((c - 65536) \div 1024))
         \o UEscape(56320 + ((c - 65536) % 1024))

\* Every character of s as json.dumps writes it (the recursion halves s).
RECURSIVE DumpChars(_)
DumpChars(s) ==
    IF s = <<>> THEN <<>>
    ELSE IF Len(s) = 1 THEN DumpChar(s[1])
    ELSE DumpChars(SubSeq(s, 1, Len(s) \div 2))
         \o DumpChars(SubSeq(s, (Len(s) \div 2) + 1, Len(s)))

DumpStr(s) == <<34>> \o DumpChars(s) \o <<34>>

RECURSIVE JsonDumps(_), DumpItems(_, _), DumpElems(_, _)
\* json.dumps(x): the JSON text of x.
JsonDumps(x) ==
    CASE x.t = "str" -> DumpStr(x.v)
      [] x.t = "int" -> IF x.v < 0 THEN <<45>> \o DecDigits(-x.v) ELSE DecDigits(x.v)
      [] x.t = "bool" -> IF x.v THEN <<116, 114, 117, 101>>
                         ELSE <<102, 97, 108, 115, 101>>
      [] x.t = "null" -> <<110, 117, 108, 108>>
      [] x.t = "float" -> x.v
      [] x.t = "list" -> <<91>> \o DumpElems(x.v, 1) \o <<93>>
      [] x.t = "dict" -> <<123>> \o DumpItems(x.v, 1) \o <<125>>

DumpItems(items, i) ==
    IF i > Len(items) THEN <<>>
    ELSE (IF i > 1 THEN <<44, 32>> ELSE <<>>)
         \o DumpStr(items[i].k) \o <<58, 32>> \o JsonDumps(items[i].v)
         \o DumpItems(items, i + 1)

DumpElems(elems, i) ==
    IF i > Len(elems) THEN <<>>
    ELSE (IF i > 1 THEN <<44, 32>> ELSE <<>>)
         \o JsonDumps(elems[i]) \o DumpElems(elems, i + 1)

(***************************************************************************)
(* json.loads: the decoding of the bytes (json.detect_encoding), then the  *)
(* scanner.  A scan returns [ok, val, pos]: the value and the position     *)
(* after it, or ok = FALSE where JSONDecodeError is raised.                *)
(***************************************************************************)

Got(v, i) == [ok |-> TRUE, val |-> v, pos |-> i]

Fail(i) == [ok |-> FALSE, val |-> JNull, pos |-> i]

At(s, i, c) == i <= Len(s) /\ s[i] = c

StartsAt(s, i, lit) ==
    i + Len(lit) - 1 <= Len(s) /\ SubSeq(s, i, i + Len(lit) - 1) = lit

IsWs(c) == c \in {32, 9, 10, 13}

SkipWs(s, i) == SkipWhile(s, i, IsWs)

IsDigit(c) == c >= 48 /\ c <= 57

SkipDigits(s, i) == SkipWhile(s, i, IsDigit)

RECURSIVE DecValue(_)
DecValue(d) ==
    IF d = <<>> THEN 0
    ELSE (DecValue(SubSeq(d, 1, Len(d) - 1)) * 10) + (d[Len(d)] - 48)

HexVal(c) ==
    IF c >= 48 /\ c <= 57 THEN c - 48
    ELSE IF c >= 97 /\ c <= 102 THEN c - 87
    ELSE IF c >= 65 /\ c <= 70 THEN c - 55
    ELSE -1

\* The value of the four hex digits at s[i..i+3], -1 when they are not four
\* hex digits.
Hex4(s, i) ==
    IF i + 3 > Len(s) \/ \E j \in i..(i + 3) : HexVal(s[j]) < 0 THEN -1
    ELSE (HexVal(s[i]) * 4096) + (HexVal(s[i + 1]) * 256)
         + (HexVal(s[i + 2]) * 16) + HexVal(s[i + 3])

\* The character a one-letter escape stands for, -1 for no escape letter.
Unescape(e) ==
    IF e \in {34, 92, 47} THEN e
    ELSE IF e = 98 THEN 8
    ELSE IF e = 102 THEN 12
    ELSE IF e = 110 THEN 10
    ELSE IF e = 114 THEN 13
    ELSE IF e = 116 THEN 9
    ELSE -1

\* A character a string holds as it is: no quote, backslash or control.
IsPlain(c) == c >= 32 /\ c # 34 /\ c # 92

\* The rest of a string from position j (after its opening quote), acc being
\* the characters read so far.
RECURSIVE ScanString(_, _, _)
\* The plain characters from j to e - 1, and the rest of the string.
ScanPlain(s, j, acc, e) == ScanString(s, e, acc \o SubSeq(s, j, e - 1))

\* The escape \uXXXX at j of value u (lo: the value of a \uXXXX that follows
\* it, or -1), and the rest of the string.
ScanUnicode(s, j, acc, u, lo) ==
    IF u < 0 THEN Fail(j)
    ELSE IF u >= 55296 /\ u <= 56319 /\ lo >= 56320 /\ lo <= 57343
    THEN ScanPlain(s, j + 12,
                   Append(acc, 65536 + ((u - 55296) * 1024) + (lo - 56320)), j + 12)
    ELSE ScanPlain(s, j + 6, Append(acc, u), j + 6)

\* The one-letter escape at j that stands for c, and the rest of the string.
ScanEscape(s, j, acc, c) ==
    IF c < 0 THEN Fail(j) ELSE ScanPlain(s, j + 2, Append(acc, c), j + 2)

ScanString(s, j, acc) ==
    IF j > Len(s) THEN Fail(j)
    ELSE IF s[j] = 34 THEN Got(JStr(acc), j + 1)
    ELSE IF s[j] < 32 THEN Fail(j)
    ELSE IF s[j] # 92 THEN ScanPlain(s, j, acc, SkipWhile(s, j, IsPlain))
    ELSE IF j + 1 > Len(s) THEN Fail(j)
    ELSE IF s[j + 1] = 117
    THEN ScanUnicode(s, j, acc, Hex4(s, j + 2),
                     IF StartsAt(s, j + 6, <<92, 117>>) THEN Hex4(s, j + 8) ELSE -1)
    ELSE ScanEscape(s, j, acc, Unescape(s[j + 1]))

\* A number at position i: -?(0|[1-9][0-9]*)(\.[0-9]+)?([eE][-+]?[0-9]+)?, an
\* int when it has neither fraction nor exponent.  d: the first digit; e: the
\* end of the integer part; x: the end of the fraction and the exponent.
NumberOf(s, i, d, e, x) ==
    IF e = d THEN Fail(i)
    ELSE IF x > e THEN Got(JFloat(SubSeq(s, i, x - 1)), x)
    ELSE Got(JInt((IF d > i THEN -1 ELSE 1) * DecValue(SubSeq(s, d, e - 1))), e)

\* x0: the first digit of an exponent that starts at f, or f; g: the end of
\* the digits from x0.
ExponentEnd(f, x0, g) == IF x0 > f /\ g > x0 THEN g ELSE f

ExponentDigits(s, f) ==
    IF At(s, f, 101) \/ At(s, f, 69)
    THEN (IF At(s, f + 1, 43) \/ At(s, f + 1, 45) THEN f + 2 ELSE f + 1)
    ELSE f

ScanExponent(s, i, d, e, f, x0) ==
    NumberOf(s, i, d, e, ExponentEnd(f, x0, SkipDigits(s, x0)))

\* g: the end of the digits after a point at e.
ScanFraction(s, i, d, e, f) == ScanExponent(s, i, d, e, f, ExponentDigits(s, f))

FractionEnd(s, e, g) == IF At(s, e, 46) /\ g > e + 1 THEN g ELSE e

ScanInteger(s, i, d, e) ==
    ScanFraction(s, i, d, e, FractionEnd(s, e, SkipDigits(s, e + 1)))

ScanDigits(s, i, d) ==
    ScanInteger(s, i, d, IF At(s, d, 48) THEN d + 1 ELSE SkipDigits(s, d))

ScanNumber(s, i) == ScanDigits(s, i, IF At(s, i, 45) THEN i + 1 ELSE i)

\* The number num scanned at i, or NaN, Infinity or -Infinity.
NumberOrConstant(s, i, num) ==
    IF num.ok THEN num
    ELSE IF StartsAt(s, i, <<78, 97, 78>>) THEN Got(JFloat(<<78, 97, 78>>), i + 3)
    ELSE IF StartsAt(s, i, <<73, 110, 102, 105, 110, 105, 116, 121>>)
    THEN Got(JFloat(SubSeq(s, i, i + 7)), i + 8)
    ELSE IF StartsAt(s, i, <<45, 73, 110, 102, 105, 110, 105, 116, 121>>)
    THEN Got(JFloat(SubSeq(s, i, i + 8)), i + 9)
    ELSE Fail(i)

RECURSIVE ScanValue(_, _), ScanMembers(_, _, _), ScanElements(_, _, _)
\* An object from position j, after its brace and the white space.
ScanObject(s, j) ==
    IF At(s, j, 125) THEN Got(JDict(<<>>), j + 1) ELSE ScanMembers(s, j, <<>>)

\* An array from position j, after its bracket and the white space.
ScanArray(s, j) ==
    IF At(s, j, 93) THEN Got(JList(<<>>), j + 1) ELSE ScanElements(s, j, <<>>)

\* The value that starts at position i.
ScanValue(s, i) ==
    IF i > Len(s) THEN Fail(i)
    ELSE IF s[i] = 34 THEN ScanString(s, i + 1, <<>>)
    ELSE IF s[i] = 123 THEN ScanObject(s, SkipWs(s, i + 1))
    ELSE IF s[i] = 91 THEN ScanArray(s, SkipWs(s, i + 1))
    ELSE IF StartsAt(s, i, <<110, 117, 108, 108>>) THEN Got(JNull, i + 4)
    ELSE IF StartsAt(s, i, <<116, 114, 117, 101>>) THEN Got(JBool(TRUE), i + 4)
    ELSE IF StartsAt(s, i, <<102, 97, 108, 115, 101>>) THEN Got(JBool(FALSE), i + 5)
    ELSE NumberOrConstant(s, i, ScanNumber(s, i))

\* After a member: items are the items read so far, n the position after the
\* member's value and the white space.
NextMember(s, items, n) ==
    IF At(s, n, 125) THEN Got(JDict(items), n + 1)
    ELSE IF At(s, n, 44) THEN ScanMembers(s, SkipWs(s, n + 1), items)
    ELSE Fail(n)

\* A member's value v (a repeated key keeps its last value).
MemberValue(s, acc, k, v) ==
    IF ~v.ok THEN Fail(v.pos)
    ELSE NextMember(s, DictSet(acc, k.val.v, v.val), SkipWs(s, v.pos))

\* The colon after a member's key k, at position c, and the value.
MemberColon(s, acc, k, c) ==
    IF ~At(s, c, 58) THEN Fail(c)
    ELSE MemberValue(s, acc, k, ScanValue(s, SkipWs(s, c + 1)))

\* A member's key k.
MemberKey(s, acc, k) ==
    IF ~k.ok THEN Fail(k.pos) ELSE MemberColon(s, acc, k, SkipWs(s, k.pos))

\* The items of an object from the key at position j on, acc being the items
\* read so far.
ScanMembers(s, j, acc) ==
    IF ~At(s, j, 34) THEN Fail(j) ELSE MemberKey(s, acc, ScanString(s, j + 1, <<>>))

\* After an element: n is the position after it and the white space.
NextElement(s, elems, n) ==
    IF At(s, n, 93) THEN Got(JList(elems), n + 1)
    ELSE IF At(s, n, 44) THEN ScanElements(s, SkipWs(s, n + 1), elems)
    ELSE Fail(n)

ElementValue(s, acc, v) ==
    IF ~v.ok THEN Fail(v.pos)
    ELSE NextElement(s, Append(acc, v.val), SkipWs(s, v.pos))

\* The elements of an array from the value at position j on.
ScanElements(s, j, acc) == ElementValue(s, acc, ScanValue(s, j))

\* json.detect_encoding(b): the encoding json.loads reads the bytes in.
DetectEncoding(b) ==
    IF StartsAt(b, 1, <<0, 0, 254, 255>>) \/ StartsAt(b, 1, <<255, 254, 0, 0>>)
    THEN "utf-32"
    ELSE IF StartsAt(b, 1, <<254, 255>>) \/ StartsAt(b, 1, <<255, 254>>)
    THEN "utf-16"
    ELSE IF StartsAt(b, 1, <<239, 187, 191>>) THEN "utf-8-sig"
    ELSE IF Len(b) >= 4 /\ b[1] = 0
    THEN (IF b[2] # 0 THEN "utf-16-be" ELSE "utf-32-be")
    ELSE IF Len(b) >= 4 /\ b[2] = 0
    THEN (IF b[3] # 0 \/ b[4] # 0 THEN "utf-16-le" ELSE "utf-32-le")
    ELSE IF Len(b) = 2 /\ b[1] = 0 THEN "utf-16-be"
    ELSE IF Len(b) = 2 /\ b[2] = 0 THEN "utf-16-le"
    ELSE "utf-8"

IsNoHighSurrogate(c) == c < 55296 \/ c > 56319

\* The code points of the UTF-16 code units u from position i on, a surrogate
\* pair combined.
RECURSIVE Utf16Points(_, _)
\* The code points pre, and those of the units from position e on.
Utf16Then(pre, u, e) == pre \o Utf16Points(u, e)

Utf16Points(u, i) ==
    IF i > Len(u) THEN <<>>
    ELSE IF IsNoHighSurrogate(u[i])
    THEN Utf16Then(SubSeq(u, i, SkipWhile(u, i, IsNoHighSurrogate) - 1), u,
                   SkipWhile(u, i, IsNoHighSurrogate))
    ELSE IF i < Len(u) /\ u[i + 1] >= 56320 /\ u[i + 1] <= 57343
    THEN Utf16Then(<<65536 + ((u[i] - 55296) * 1024) + (u[i + 1] - 56320)>>,
                   u, i + 2)
    ELSE Utf16Then(<<u[i]>>, u, i + 1)

Utf16Decode(b, big) ==
    IF Len(b) % 2 # 0 THEN Raise("UnicodeDecodeError")
    ELSE Ok(Utf16Points([i \in 1..(Len(b) \div 2) |->
                IF big THEN (b[(2 * i) - 1] * 256) + b[2 * i]
                ELSE (b[2 * i] * 256) + b[(2 * i) - 1]], 1))

Utf32Decode(b, big) ==
    LET byte(i, k) == IF big THEN b[(4 * i) - 4 + k] ELSE b[(4 * i) + 1 - k] IN
    IF Len(b) % 4 # 0
       \/ \E i \in 1..(Len(b) \div 4) : byte(i, 1) # 0 \/ byte(i, 2) > 16
    THEN Raise("UnicodeDecodeError")
    ELSE Ok([i \in 1..(Len(b) \div 4) |->
                (byte(i, 2) * 65536) + (byte(i, 3) * 256) + byte(i, 4)])

\* b.decode(enc, "surrogatepass"): a byte order mark the encoding reads is
\* skipped.
DecodeAs(b, enc) ==
    IF enc \in {"utf-8", "utf-8-sig"}
    THEN Utf8Decode(IF enc = "utf-8" THEN b ELSE SubSeq(b, 4, Len(b)))
    ELSE IF enc \in {"utf-16", "utf-16-be", "utf-16-le"}
    THEN Utf16Decode(IF enc = "utf-16" THEN SubSeq(b, 3, Len(b)) ELSE b,
                     enc = "utf-16-be" \/ (enc = "utf-16" /\ b[1] = 254))
    ELSE Utf32Decode(IF enc = "utf-32" THEN SubSeq(b, 5, Len(b)) ELSE b,
                     enc = "utf-32-be" \/ (enc = "utf-32" /\ b[1] = 0))

\* The value r scanned in the text s: nothing but white space may follow it.
LoadsValue(s, r) ==
    IF ~r.ok \/ SkipWs(s, r.pos) # Len(s) + 1
    THEN Raise("JSONDecodeError")
    ELSE Ok(r.val)

\* The value of the decoded text d.
LoadsText(d) ==
    IF d.exc # NoExc THEN Raise(d.exc)
    ELSE IF At(d.val, 1, 65279) THEN Raise("JSONDecodeError")
    ELSE LoadsValue(d.val, ScanValue(d.val, SkipWs(d.val, 1)))

\* json.loads(b): the value of the JSON text in the bytes b; JSONDecodeError
\* when the text is not one JSON value, UnicodeDecodeError when the bytes are
\* no text.
JsonLoads(b) == LoadsText(DecodeAs(b, DetectEncoding(b)))

(***************************************************************************)
(* State                                                                   *)
(***************************************************************************)

VARIABLES
    fs,                     \* the sender's filesystem: path -> [kind, mode, data]
    enc,                    \* the sender's last call of an encoder and its outcome
    sender_pc,              \* "run", or "raised" once an encoder raised
    sent,                   \* the messages written to the socket, in order
    stream,                 \* every byte written to the socket, in order
    wire,                   \* the bytes written and not yet received
    peer_closed,            \* the sender's end of the connection is closed
    pc,                     \* the receiver: "idle", "L91", "content", "raised"
    call_start,             \* bytes received before the current get_file_metadata
    metadata_length_bytes,  \* get_file_metadata's locals
    metadata_length,
    metadata_bytes,
    result,                 \* what the last get_file_metadata returned or raised
    content,                \* the content bytes read after the metadata
    received                \* the (metadata, content) pairs the receiver obtained

vars == <<fs, enc, sender_pc, sent, stream, wire, peer_closed, pc, call_start,
          metadata_length_bytes, metadata_length, metadata_bytes, result,
          content, received>>

sender_vars == <<enc, sender_pc, sent, stream, wire, peer_closed>>

receiver_vars == <<pc, call_start, metadata_length_bytes, metadata_length,
                   metadata_bytes, result, content, received>>

(***************************************************************************)
(* The filesystem calls of file_encode (POSIX)                             *)
(***************************************************************************)

\* A string of n characters c.
Rep(c, n) == [i \in 1..n |-> c]

\* os.path.basename(p): what follows the last "/" of p.
basename(p) ==
    LET i == CHOOSE j \in 0..Len(p) :
                 /\ j = 0 \/ p[j] = 47
                 /\ \A m \in (j + 1)..Len(p) : p[m] # 47
    IN  SubSeq(p, i + 1, Len(p))

\* os.stat(path).st_mode
os_stat(path) ==
    IF path \notin DOMAIN fs THEN Raise("FileNotFoundError")
    ELSE IF fs[path].kind = "nosearch" THEN Raise("PermissionError")
    ELSE Ok(fs[path].mode)

\* open(path, "rb").read()
open_read(path) ==
    IF path \notin DOMAIN fs THEN Raise("FileNotFoundError")
    ELSE CASE fs[path].kind = "file" -> Ok(fs[path].data)
           [] fs[path].kind = "dir" -> Raise("IsADirectoryError")
           [] OTHER -> Raise("PermissionError")

(***************************************************************************)
(* file_encode and text_message_encode                                     *)
(***************************************************************************)

\* file_info as file_encode fills it in, given the mode and the data read.
file_info(file_path, file_compressed, st_mode, file_data) ==
    DictSet(DictSet(DictSet(DictSet(<<>>,
        K_is_compressed, JBool(file_compressed)),
        K_file_name, JStr(basename(file_path))),
        K_permissions, JInt(st_mode)),
        K_file_len, JInt(Len(file_data)))

\* json.dumps(file_info).encode("utf-8")
metadata_of(info) == Utf8Encode(JsonDumps(JDict(info))).val

\* file_encode that frames the content by its own length too.
file_encode_framed_content(file_path, file_compressed) ==
    LET st == os_stat(file_path)
        rd == open_read(file_path)
        metadata_bytes_ == metadata_of(file_info(file_path, file_compressed,
                                                 st.val, rd.val))
        metadata_length_bytes_ == ToBytes(Len(metadata_bytes_), INT_SIZE)
    IN  IF st.exc # NoExc THEN Raise(st.exc)
        ELSE IF rd.exc # NoExc THEN Raise(rd.exc)
        ELSE IF metadata_length_bytes_.exc # NoExc
        THEN Raise(metadata_length_bytes_.exc)
        ELSE Ok(metadata_length_bytes_.val \o metadata_bytes_
                \o ToBytes(Len(rd.val) % (MaxFrame + 1), INT_SIZE).val \o rd.val)

\* file_encode(file_path, file_compressed): the bytes returned, or the
\* exception raised (by os.stat, by open, re-raised as PermissionError, or by
\* to_bytes).
file_encode(file_path, file_compressed) ==
    LET st == os_stat(file_path)
        rd == open_read(file_path)
        metadata_bytes_ == metadata_of(file_info(file_path, file_compressed,
                                                 st.val, rd.val))
        metadata_length_bytes_ == ToBytes(Len(metadata_bytes_), INT_SIZE)
    IN  IF st.exc # NoExc THEN Raise(st.exc)
        ELSE IF rd.exc = "PermissionError" THEN Raise("PermissionError")
        ELSE IF rd.exc # NoExc THEN Raise(rd.exc)
        ELSE IF metadata_length_bytes_.exc # NoExc
        THEN Raise(metadata_length_bytes_.exc)
        ELSE Ok(metadata_length_bytes_.val \o metadata_bytes_ \o rd.val)

\* text_message_encode that counts the characters of the message.
text_message_encode_chars(message) ==
    LET message_bytes == Utf8Encode(message)
        binary_data == ToBytes(Len(message), INT_SIZE)
    IN  IF message_bytes.exc # NoExc THEN Raise(message_bytes.exc)
        ELSE IF binary_data.exc # NoExc THEN Raise(binary_data.exc)
        ELSE Ok(binary_data.val \o message_bytes.val)

\* text_message_encode(message): the bytes returned, or the exception raised
\* (by str.encode or by to_bytes).
text_message_encode(message) ==
    LET message_bytes == Utf8Encode(message)
        text_len == Len(message_bytes.val)
        binary_data == ToBytes(text_len, INT_SIZE)
    IN  IF message_bytes.exc # NoExc THEN Raise(message_bytes.exc)
        ELSE IF binary_data.exc # NoExc THEN Raise(binary_data.exc)
        ELSE Ok(binary_data.val \o message_bytes.val)

(***************************************************************************)
(* The sender: its files, the texts it sends, and what it writes           *)
(***************************************************************************)

PathA == <<100, 47, 97>>                \* d/a

PathB == <<100, 47, 113, 34, 233>>      \* d/q"e-acute

PathNoRead == <<120>>                   \* x

PathDir == <<100>>                      \* d

PathNoSearch == <<112, 47, 115>>        \* p/s

PathMissing == <<110, 111, 112, 101>>   \* nope

\* A path whose name alone is longer than the largest frame.
PathLong == Rep(97, MaxFrame + 1)

\* A filesystem whose names are short, as filesystems keep them: a regular
\* file with content, one with a quote and a non-ASCII letter in its name and
\* no content, a file the sender may not read, a directory, and a file in a
\* directory the sender may not search.
ShortNames ==
    (PathA :> [kind |-> "file", mode |-> 33188, data |-> <<104, 101, 108, 108, 111>>])
    @@ (PathB :> [kind |-> "file", mode |-> 33261, data |-> <<>>])
    @@ (PathNoRead :> [kind |-> "noread", mode |-> 32768, data |-> <<>>])
    @@ (PathDir :> [kind |-> "dir", mode |-> 16877, data |-> <<>>])
    @@ (PathNoSearch :> [kind |-> "nosearch", mode |-> 33188, data |-> <<>>])

\* The same with a file whose name no frame holds.
LongNames ==
    ShortNames @@ (PathLong :> [kind |-> "file", mode |-> 33188, data |-> <<>>])

\* The calls of file_encode: every path of the filesystem and one that is not
\* in it, the file with content sent as it is and the others as compressed.
FileCalls == {<<p, p # PathA>> : p \in DOMAIN fs \cup {PathMissing}}

TextsSent == Cardinality({i \in 1..Len(sent) : sent[i].kind = "text"})

\* The texts text_message_encode is called with: the empty string, "ping",
\* "{}", one non-ASCII letter, a lone surrogate, the longest text a frame
\* holds, one character more, and a text of fewer than MaxFrame characters
\* and more than MaxFrame bytes.
Texts ==
    { <<>>, <<112, 105, 110, 103>>, <<123, 125>>, <<233>>, <<56448>>,
      Rep(97, MaxFrame), Rep(97, MaxFrame + 1),
      Rep(233, ((MaxFrame + 1) \div 2) + 1) }

NoCall ==
    [op |-> "none", file_path |-> <<>>, file_compressed |-> FALSE,
     message |-> <<>>, exc |-> NoExc, out |-> <<>>]

\* How many bytes of a message of total bytes a sender writes: all of them, or
\* the first n when it dies while sending.
Written(total) ==
    {total} \cup {n \in 1..(total - 1) : n <= INT_SIZE + MaxCut \/ n >= total - MaxCut}

\* sendall(bytes) of which n bytes reach the socket: the whole message, or a
\* part, and then the connection closes.
Write(kind, info, meta, data, bytes, n) ==
    /\ stream' = stream \o SubSeq(bytes, 1, n)
    /\ wire' = wire \o SubSeq(bytes, 1, n)
    /\ sent' = Append(sent, [kind |-> kind, start |-> Len(stream), info |-> info,
                             meta |-> meta, content |-> data,
                             size |-> Len(bytes), written |-> n])
    /\ peer_closed' = (n < Len(bytes))

\* The sender encodes a file and writes the message to the socket.
SendFile ==
    /\ sender_pc = "run" /\ ~peer_closed /\ Len(sent) < MaxMsgs
    /\ \E call \in FileCalls :
         LET file_path == call[1]
             file_compressed == call[2]
             r == file_encode(file_path, file_compressed)
         IN
         /\ enc' = [op |-> "file_encode", file_path |-> file_path,
                    file_compressed |-> file_compressed, message |-> <<>>,
                    exc |-> r.exc, out |-> r.val]
         /\ IF r.exc = NoExc
            THEN LET info == file_info(file_path, file_compressed,
                                       fs[file_path].mode, fs[file_path].data)
                 IN  /\ \E n \in Written(Len(r.val)) :
                            Write("file", info, metadata_of(info),
                                  fs[file_path].data, r.val, n)
                     /\ UNCHANGED sender_pc
            ELSE /\ sender_pc' = "raised"
                 /\ UNCHANGED <<sent, stream, wire, peer_closed>>
    /\ UNCHANGED <<fs, receiver_vars>>

\* The sender encodes a text message and writes it to the socket.
SendText ==
    /\ sender_pc = "run" /\ ~peer_closed /\ Len(sent) < MaxMsgs
    /\ TextsSent < MaxTexts
    /\ \E message \in Texts :
         LET r == text_message_encode(message) IN
         /\ enc' = [op |-> "text_message_encode", file_path |-> <<>>,
                    file_compressed |-> FALSE, message |-> message,
                    exc |-> r.exc, out |-> r.val]
         /\ IF r.exc = NoExc
            THEN /\ \E n \in Written(Len(r.val)) :
                        Write("text", <<>>, Utf8Bytes(message), <<>>, r.val, n)
                 /\ UNCHANGED sender_pc
            ELSE /\ sender_pc' = "raised"
                 /\ UNCHANGED <<sent, stream, wire, peer_closed>>
    /\ UNCHANGED <<fs, receiver_vars>>

\* The sender closes the connection between two messages.
PeerClose ==
    /\ ~peer_closed
    /\ peer_closed' = TRUE
    /\ UNCHANGED <<fs, enc, sender_pc, sent, stream, wire, receiver_vars>>

(***************************************************************************)
(* The receiver: get_file_metadata, then the content                       *)
(***************************************************************************)

\* What socket.recv(n) may return: nothing for n = 0; at the end of a closed
\* connection nothing; otherwise (it blocks on an empty open connection) any
\* non-empty prefix of the bytes written, of at most n bytes.
RecvChoices(n) ==
    IF n = 0 THEN {<<>>}
    ELSE IF wire = <<>> THEN (IF peer_closed THEN {<<>>} ELSE {})
    ELSE {SubSeq(wire, 1, k) : k \in 1..Min(n, Len(wire))}

\* The stream once recv returned b.
After(b) == SubSeq(wire, Len(b) + 1, Len(wire))

NoResult == [call |-> -1, exc |-> NoExc, val |-> <<>>, closed |-> FALSE]

\* The file_len of a value get_file_metadata returned, -1 when the value has
\* none (the caller's file_metadata["file_len"] raises).
FileLenOf(v) ==
    IF v.t = "dict" /\ HasKey(v.v, K_file_len)
       /\ DictGet(v.v, K_file_len).t = "int" /\ DictGet(v.v, K_file_len).v >= 0
    THEN DictGet(v.v, K_file_len).v
    ELSE -1

\* get_file_metadata, lines 88-89: one recv of INT_SIZE bytes, and the length
\* those bytes hold.
RecvLength ==
    /\ pc = "idle"
    /\ \E b \in RecvChoices(INT_SIZE) :
         /\ wire' = After(b)
         /\ metadata_length_bytes' = b
         /\ metadata_length' = FromBytes(b)
    /\ call_start' = Len(stream) - Len(wire)
    /\ pc' = "L91"
    /\ metadata_bytes' = <<>>
    /\ result' = NoResult
    /\ content' = <<>>
    /\ UNCHANGED <<fs, enc, sender_pc, sent, stream, peer_closed, received>>

\* get_file_metadata, lines 91-94: one recv of metadata_length bytes, and
\* json.loads of what it returned; the value is returned, or the exception
\* propagates.  The caller then reads the content, file_len bytes.
RecvMetadata ==
    /\ pc = "L91"
    /\ \E b \in RecvChoices(metadata_length) :
         LET file_metadata == JsonLoads(b) IN
         /\ wire' = After(b)
         /\ metadata_bytes' = b
         /\ result' = [call |-> call_start, exc |-> file_metadata.exc,
                       val |-> file_metadata.val, closed |-> peer_closed]
         /\ IF file_metadata.exc # NoExc THEN pc' = "raised" /\ UNCHANGED received
            ELSE IF FileLenOf(file_metadata.val) < 0
            THEN pc' = "raised" /\ UNCHANGED received
            ELSE IF FileLenOf(file_metadata.val) = 0
            THEN /\ pc' = "idle"
                 /\ received' = Append(received, [info |-> file_metadata.val.v,
                                                  content |-> <<>>])
            ELSE pc' = "content" /\ UNCHANGED received
    /\ UNCHANGED <<fs, enc, sender_pc, sent, stream, peer_closed, call_start,
                   metadata_length_bytes, metadata_length, content>>

\* The caller's read of the content: recv until file_len bytes are read; the
\* end of the connection before that is an error.
ReadContent ==
    /\ pc = "content"
    /\ \E b \in RecvChoices(FileLenOf(result.val) - Len(content)) :
         /\ wire' = After(b)
         /\ content' = content \o b
         /\ IF b = <<>> THEN pc' = "raised" /\ UNCHANGED received
            ELSE IF Len(content) + Len(b) = FileLenOf(result.val)
            THEN /\ pc' = "idle"
                 /\ received' = Append(received, [info |-> result.val.v,
                                                  content |-> content \o b])
            ELSE UNCHANGED <<pc, received>>
    /\ UNCHANGED <<fs, enc, sender_pc, sent, stream, peer_closed, call_start,
                   metadata_length_bytes, metadata_length, metadata_bytes, result>>

(***************************************************************************)
(* Specifications                                                          *)
(***************************************************************************)

InitRest ==
    /\ enc = NoCall
    /\ sender_pc = "run"
    /\ sent = <<>>
    /\ stream = <<>>
    /\ wire = <<>>
    /\ peer_closed = FALSE
    /\ pc = "idle"
    /\ call_start = 0
    /\ metadata_length_bytes = <<>>
    /\ metadata_length = 0
    /\ metadata_bytes = <<>>
    /\ result = NoResult
    /\ content = <<>>
    /\ received = <<>>

Init == fs = ShortNames /\ InitRest

InitLongNames == fs = LongNames /\ InitRest

Next ==
    \/ SendFile
    \/ SendText
    \/ PeerClose
    \/ RecvLength
    \/ RecvMetadata
    \/ ReadContent

Spec == Init /\ [][Next]_vars

\* The same program on a filesystem that holds a name longer than a frame.
SpecLongNames == InitLongNames /\ [][Next]_vars

(***************************************************************************)
(* The vocabulary of the properties                                        *)
(***************************************************************************)

\* The error kind an exception stands for.
ErrorKind(exc) ==
    CASE exc = "OverflowError" -> "FrameTooLarge"
      [] exc = "PermissionError" -> "AccessDenied"
      [] exc = "FileNotFoundError" -> "NotFound"
      [] exc \in {"JSONDecodeError", "UnicodeDecodeError"} -> "MalformedMetadata"
      [] exc = "UnicodeEncodeError" -> "InvalidEncoding"
      [] exc \in {"ConnectionError", "ConnectionResetError",
                  "ConnectionAbortedError", "BrokenPipeError", "EOFError"}
         -> "ConnectionClosed"
      [] OTHER -> exc

\* The big-endian value of the INT_SIZE bytes at the head of b, written out.
PrefixValue(b) ==
    (b[1] * ByteRadix * ByteRadix * ByteRadix) + (b[2] * ByteRadix * ByteRadix)
    + (b[3] * ByteRadix) + b[4]

IsPrefix(b) == Len(b) >= INT_SIZE /\ \A i \in 1..INT_SIZE : b[i] \in 0..(ByteRadix - 1)

\* How many bytes the UTF-8 encoding of s has.
RECURSIVE Utf8Len(_)
Utf8Len(s) ==
    IF s = <<>> THEN 0
    ELSE IF Len(s) = 1
    THEN (IF s[1] < 128 THEN 1 ELSE IF s[1] < 2048 THEN 2
          ELSE IF s[1] < 65536 THEN 3 ELSE 4)
    ELSE Utf8Len(SubSeq(s, 1, Len(s) \div 2))
         + Utf8Len(SubSeq(s, (Len(s) \div 2) + 1, Len(s)))

HasSurrogate(s) == \E i \in 1..Len(s) : s[i] >= 55296 /\ s[i] <= 57343

MetadataKeys == {K_is_compressed, K_file_name, K_permissions, K_file_len}

SameValue(a, b) == a.t = b.t /\ a.v = b.v

\* The value v is a dict that holds the four fields of the record info, each
\* with the record's value.
SameRecord(v, info) ==
    /\ v.t = "dict"
    /\ \A k \in MetadataKeys :
         HasKey(v.v, k) /\ SameValue(DictGet(v.v, k), DictGet(info, k))

\* The value v is a metadata record: a dict of exactly the four fields, a
\* bool, a string and two naturals.
IsMetadata(v) ==
    /\ v.t = "dict"
    /\ {v.v[i].k : i \in 1..Len(v.v)} = MetadataKeys
    /\ DictGet(v.v, K_is_compressed).t = "bool"
    /\ DictGet(v.v, K_file_name).t = "str"
    /\ DictGet(v.v, K_permissions).t = "int"
    /\ DictGet(v.v, K_file_len).t = "int"

\* The bytes b are a serialized metadata record.
Conforming(b) == JsonLoads(b).exc = NoExc /\ IsMetadata(JsonLoads(b).val)

\* The dict d holds the metadata of the file at file_path: the flag given, the
\* last component of the path, the mode and the size of the file.
FileRecord(d, file_path, file_compressed) ==
    /\ DictGet(d, K_is_compressed) = JBool(file_compressed)
    /\ DictGet(d, K_file_name).t = "str"
    /\ \A j \in 1..Len(DictGet(d, K_file_name).v) : DictGet(d, K_file_name).v[j] # 47
    /\ \/ file_path = DictGet(d, K_file_name).v
       \/ /\ Len(file_path) > Len(DictGet(d, K_file_name).v)
          /\ file_path[Len(file_path) - Len(DictGet(d, K_file_name).v)] = 47
          /\ SubSeq(file_path, Len(file_path) - Len(DictGet(d, K_file_name).v) + 1,
                    Len(file_path)) = DictGet(d, K_file_name).v
    /\ DictGet(d, K_permissions) = JInt(fs[file_path].mode)
    /\ DictGet(d, K_file_len) = JInt(Len(fs[file_path].data))

\* How many bytes the receiver has taken from the stream.
Consumed == Len(stream) - Len(wire)

\* The message whose first byte is at offset off of the stream, 0 for none.
MsgAt(off) ==
    IF \E i \in 1..Len(sent) : sent[i].start = off
    THEN CHOOSE i \in 1..Len(sent) : sent[i].start = off
    ELSE 0

FrameSize(i) == INT_SIZE + Len(sent[i].meta)

\* The whole frame of message i was written.
FrameWritten(i) == sent[i].written >= FrameSize(i)

Complete(i) == sent[i].written = sent[i].size

\* The last call of get_file_metadata has returned or raised.
CallDone == result.call >= 0

\* get_file_metadata is running, or has run, on the frame of message i.
CallOn(i) == i # 0 /\ call_start = sent[i].start /\ (pc = "L91" \/ CallDone)

\* The last call read its length prefix and its payload whole.
ReadWhole(i) ==
    /\ Len(metadata_length_bytes) = INT_SIZE
    /\ Len(metadata_bytes) = Len(sent[i].meta)

(***************************************************************************)
(* The properties                                                          *)
(***************************************************************************)

\* C1: when file_encode produced a message from a metadata record and
\* get_file_metadata ran on a stream that holds that message, the call returns
\* a record equal to the original in is_compressed, file_name, permissions and
\* file_len.
C1_MetadataRoundTrip ==
    \A i \in 1..Len(sent) :
        (CallDone /\ CallOn(i) /\ sent[i].kind = "file" /\ FrameWritten(i))
        => /\ result.exc = NoExc
           /\ SameRecord(result.val, sent[i].info)

\* The round trip of C1 for the calls whose two recv returned all the bytes
\* they asked for.
RoundTripOfWholeReads ==
    \A i \in 1..Len(sent) :
        (CallDone /\ CallOn(i) /\ sent[i].kind = "file" /\ ReadWhole(i))
        => /\ result.exc = NoExc
           /\ SameRecord(result.val, sent[i].info)
           /\ IsMetadata(result.val)

\* C2: however the socket splits the bytes of a frame across its recv calls,
\* the payload get_file_metadata reads is the payload the frame was built
\* from.
C2_PartialDelivery ==
    \A i \in 1..Len(sent) :
        (CallDone /\ CallOn(i) /\ FrameWritten(i))
        => metadata_bytes = sent[i].meta

\* C3: when the stream ends before the frame is whole (inside the length
\* prefix, inside the payload, or with no byte at all), get_file_metadata
\* fails with ConnectionClosed and does not decode the bytes it got.
C3_TruncatedStream ==
    (CallDone /\ (MsgAt(call_start) = 0 \/ ~FrameWritten(MsgAt(call_start))))
    => ErrorKind(result.exc) = "ConnectionClosed"

\* C4: text_message_encode of a text whose encoding is longer than the largest
\* frame, and file_encode of a file whose serialized metadata is, fail with
\* FrameTooLarge (they raise OverflowError) and return no bytes; no message is
\* written.
C4_FrameTooLarge ==
    /\ (enc.op = "text_message_encode" /\ ~HasSurrogate(enc.message)
        /\ Utf8Len(enc.message) > MaxFrame)
       => /\ enc.exc = "OverflowError"
          /\ enc.out = <<>>
          /\ sender_pc = "raised"
    /\ (enc.op = "file_encode" /\ enc.file_path \in DOMAIN fs
        /\ fs[enc.file_path].kind = "file"
        /\ Utf8Len(JsonDumps(JDict(file_info(enc.file_path, enc.file_compressed,
                                             fs[enc.file_path].mode,
                                             fs[enc.file_path].data)))) > MaxFrame)
       => /\ enc.exc = "OverflowError"
          /\ enc.out = <<>>
          /\ sender_pc = "raised"

\* file_encode was called on a file whose name alone is longer than the
\* largest frame, and raised OverflowError.
C4_Witness ==
    /\ enc.op = "file_encode"
    /\ enc.file_path = PathLong
    /\ enc.exc = "OverflowError"
    /\ sent = <<>>

\* The message out is P || M || C for the file at file_path: P the INT_SIZE
\* bytes of Len(M), most significant first, M a serialized record of the four
\* fields, C the content of the file.
FileLayout(out, file_path, file_compressed) ==
    /\ IsPrefix(out)
    /\ Len(out) = INT_SIZE + PrefixValue(out) + Len(fs[file_path].data)
    /\ SubSeq(out, INT_SIZE + PrefixValue(out) + 1, Len(out)) = fs[file_path].data
    /\ Conforming(SubSeq(out, INT_SIZE + 1, INT_SIZE + PrefixValue(out)))
    /\ FileRecord(JsonLoads(SubSeq(out, INT_SIZE + 1,
                                   INT_SIZE + PrefixValue(out))).val.v,
                  file_path, file_compressed)

WholeFileMessages ==
    \A i \in 1..Len(sent) : sent[i].kind = "file" /\ Complete(i)

\* C6: on a stream of whole file messages, reading each message in two steps
\* (get_file_metadata, then file_len bytes of content) does not fail on a
\* message, yields the metadata and the content of the messages in the order
\* they were written,
\* and leaves the stream at the first byte of the next message.
C6_TwoStepReceive ==
    WholeFileMessages
    => /\ pc = "raised" => MsgAt(call_start) = 0
       /\ Len(received) <= Len(sent)
       /\ \A j \in 1..Len(received) :
            /\ j <= Len(sent)
            /\ received[j].info = sent[j].info
            /\ received[j].content = sent[j].content
       /\ pc = "idle"
          => Consumed = (IF received = <<>> THEN 0
                         ELSE sent[Len(received)].start + sent[Len(received)].size)

\* The two-step receive of C6 as long as every recv of get_file_metadata
\* returned all the bytes it asked for.
TwoStepReceiveOfWholeReads ==
    (WholeFileMessages /\ pc = "raised")
    => \/ MsgAt(call_start) = 0
       \/ Len(metadata_length_bytes) < INT_SIZE
       \/ Len(metadata_bytes) < metadata_length

\* The frame out is the INT_SIZE bytes of the number of bytes of the UTF-8
\* encoding of message, most significant first, and then that encoding and
\* nothing else; the bytes the prefix counts, decoded, are message again.
TextLayout(out, message) ==
    /\ IsPrefix(out)
    /\ PrefixValue(out) = Utf8Len(message)
    /\ Len(out) = INT_SIZE + Utf8Len(message)
    /\ SubSeq(out, INT_SIZE + 1, Len(out)) = Utf8Bytes(message)
    /\ Utf8Decode(SubSeq(out, INT_SIZE + 1, INT_SIZE + PrefixValue(out)))
       = Ok(message)

\* C7 as the specification states it: for every string, text_message_encode
\* returns the 4-byte big-endian number of bytes of its UTF-8 encoding and
\* then that encoding, and reading the frame and decoding it gives the string
\* back.
C7_TextLayout_Every ==
    enc.op = "text_message_encode"
    => /\ enc.exc = NoExc
       /\ TextLayout(enc.out, enc.message)

\* C7: for every string that has a UTF-8 encoding (no lone surrogate) of at
\* most MaxFrame bytes, text_message_encode returns the 4-byte big-endian
\* number of bytes (not of characters) of the encoding and then the encoding,
\* and reading the frame and decoding it gives the string back.
C7_TextLayout ==
    (enc.op = "text_message_encode" /\ ~HasSurrogate(enc.message)
     /\ Utf8Len(enc.message) <= MaxFrame)
    => /\ enc.exc = NoExc
       /\ TextLayout(enc.out, enc.message)

\* text_message_encode returned the frame of a text that has more bytes than
\* characters.
C7_Witness ==
    /\ enc.op = "text_message_encode"
    /\ enc.exc = NoExc
    /\ Utf8Len(enc.message) > Len(enc.message)
    /\ Len(enc.out) = INT_SIZE + Utf8Len(enc.message)

\* C8: file_encode of a path the process may not read (or stat) fails with
\* AccessDenied, of a path that names no file with NotFound, and returns no
\* bytes in either case.
C8_FileErrors ==
    enc.op = "file_encode"
    => /\ (enc.file_path \in DOMAIN fs
           /\ fs[enc.file_path].kind \in {"noread", "nosearch"})
          => (ErrorKind(enc.exc) = "AccessDenied" /\ enc.out = <<>>)
       /\ (enc.file_path \notin DOMAIN fs \/ fs[enc.file_path].kind = "dir")
          => (ErrorKind(enc.exc) = "NotFound" /\ enc.out = <<>>)

\* C9: when the payload get_file_metadata read is not a serialized metadata
\* record, the call fails with MalformedMetadata and returns nothing.
C9_MalformedMetadata ==
    (CallDone /\ ~Conforming(metadata_bytes))
    => ErrorKind(result.exc) = "MalformedMetadata"

\* C10: a call of get_file_metadata takes at most INT_SIZE + n bytes from the
\* stream, n the length it decoded; the bytes it took are the bytes of the
\* stream from where the call began, none of them past the frame of the
\* message there, and the bytes after them are left in the stream in order
\* (all the receiver took besides is the content its caller read).
C10_NoOverRead ==
    /\ wire = SubSeq(stream, Consumed + 1, Len(stream))
    /\ (pc = "L91" \/ CallDone)
       => /\ Consumed = call_start + Len(metadata_length_bytes)
                        + Len(metadata_bytes) + Len(content)
          /\ Len(metadata_length_bytes) <= INT_SIZE
          /\ Len(metadata_bytes) <= metadata_length
          /\ metadata_length_bytes \o metadata_bytes
             = SubSeq(stream, call_start + 1,
                      call_start + Len(metadata_length_bytes) + Len(metadata_bytes))
          /\ \A i \in 1..Len(sent) :
               CallOn(i)
               => call_start + Len(metadata_length_bytes) + Len(metadata_bytes)
                  <= sent[i].start + FrameSize(i)

\* A call on a file message that has content returned after a short read of
\* the length prefix and a read of payload bytes.
C10_Witness ==
    /\ CallDone
    /\ MsgAt(call_start) # 0
    /\ sent[MsgAt(call_start)].kind = "file"
    /\ sent[MsgAt(call_start)].content # <<>>
    /\ Complete(MsgAt(call_start))
    /\ Len(metadata_length_bytes) < INT_SIZE
    /\ metadata_bytes # <<>>
    /\ Len(metadata_bytes) = metadata_length

=============================================================================
